---- MODULE Spec2Model ----
(***************************************************************************)
(* Model of src/source/index.ts (bevry/hooks): the useInterval hook and    *)
(* the keyboard hooks useKey, useMetaKey, useKeyPress and useEscapeKey.    *)
(*                                                                         *)
(* The hook is code that runs inside React, so the model carries the part  *)
(* of React's hook semantics the code relies on:                           *)
(*   - useState: one state cell per component instance (iterations);       *)
(*   - useEffect without dependencies: the effect of a render runs after   *)
(*     the render is committed, in a deferred step; the pending effect of  *)
(*     the previous render is always flushed before a new render starts    *)
(*     and before a state update is processed; running an effect first     *)
(*     runs the cleanup returned by the previous run; unmounting runs the  *)
(*     last cleanup synchronously;                                         *)
(*   - setTimeout / clearTimeout of the host event loop: a set of pending  *)
(*     one-shot timers, each identified by its handle;                     *)
(*   - document.addEventListener / removeEventListener: a set of           *)
(*     registered listeners, each identified by its event type and its     *)
(*     callback function (registering the same pair twice registers it     *)
(*     once); an event invokes every listener registered for its type.     *)
(* JavaScript values are modelled with their runtime behaviour: the        *)
(* default Array.prototype.sort compares the elements as strings, reading  *)
(* element 0 of an empty array gives undefined, and a relational           *)
(* comparison with undefined is false.                                     *)
(***************************************************************************)
EXTENDS Integers, Sequences, FiniteSets

\* ---------------------------------------------------------------- bounds
MaxLen == 2      \* longest Duration Set passed to useInterval
MaxTicks == 3    \* timer callbacks run per component instance
MaxEvents == 3   \* keyboard events dispatched

\* ---------------------------------------------------------------- inputs
Instances == {1, 2}
Durations == {-300, 300, 1500}
Thresholds == {-1, 0, 1000}

RECURSIVE SeqsUpTo(_, _)
SeqsUpTo(S, n) ==
    IF n = 0 THEN {<<>>}
    ELSE LET shorter == SeqsUpTo(S, n - 1)
         IN shorter \cup {Append(s, x) : s \in shorter, x \in S}

\* the `interval` argument: number | number[]
Single(n) == [isArray |-> FALSE, num |-> n, arr |-> <<>>]
Array(s) == [isArray |-> TRUE, num |-> 0, arr |-> s]
Intervals == {Single(n) : n \in Durations} \cup {Array(s) : s \in SeqsUpTo(Durations, MaxLen)}

\* ------------------------------------------------------ JavaScript values
Num(n) == [defined |-> TRUE, val |-> n]
Undefined == [defined |-> FALSE, val |-> 0]

\* a < b of JavaScript on number | undefined: undefined converts to NaN and
\* every comparison with NaN is false
JSLess(a, b) == a.defined /\ b.defined /\ a.val < b.val

\* Number to string, as a sequence of UTF-16 code units
ToString[n \in Int] ==
    IF n < 0 THEN <<45>> \o ToString[-n]
    ELSE IF n < 10 THEN <<48 + n>>
    ELSE ToString[n \div 10] \o <<48 + (n % 10)>>

\* string comparison by code units
StringLess[a \in Seq(Nat), b \in Seq(Nat)] ==
    IF b = <<>> THEN FALSE
    ELSE IF a = <<>> THEN TRUE
    ELSE IF Head(a) # Head(b) THEN Head(a) < Head(b)
    ELSE StringLess[Tail(a), Tail(b)]

\* the default comparison of Array.prototype.sort (no comparator given):
\* the elements are converted to strings and the strings compared
SortBefore(x, y) == StringLess[ToString[x], ToString[y]]

Insert[x \in Int, s \in Seq(Int)] ==
    IF s = <<>> THEN <<x>>
    ELSE IF SortBefore(Head(s), x) THEN <<Head(s)>> \o Insert[x, Tail(s)]
    ELSE <<x>> \o s

\* interval.sort()
Sort[s \in Seq(Int)] == IF s = <<>> THEN <<>> ELSE Insert[Head(s), Sort[Tail(s)]]

\* interval.filter(ms => ms >= 0)
Filter(s) == SelectSeq(s, LAMBDA ms : ms >= 0)

\* array[0]
ElementZero(s) == IF s = <<>> THEN Undefined ELSE Num(s[1])

\* The body of the effect function up to the setTimeout call: whether a
\* timer is created and with which delay argument.
NoTimer == [armed |-> FALSE, delay |-> Undefined]
JSValues == [defined : BOOLEAN, val : Int]

\* The effect function from the negative check to the setTimeout call, on
\* the value the array branch left in `interval`: whether a timer is
\* created and with which delay argument.
ArmWith[iv \in JSValues, threshold \in Int] ==
    IF JSLess(iv, Num(0)) THEN NoTimer
    ELSE [armed |-> TRUE,
          delay |-> IF JSLess(iv, Num(threshold)) THEN Num(threshold) ELSE iv]

\* variant: the threshold is never applied
EffectBodyNoRaise(interval, threshold) ==
    IF interval.isArray /\ Len(interval.arr) = 0 THEN NoTimer
    ELSE LET iv == IF interval.isArray
                   THEN ElementZero(Sort[Filter(interval.arr)])
                   ELSE Num(interval.num)
         IN IF JSLess(iv, Num(0)) THEN NoTimer ELSE [armed |-> TRUE, delay |-> iv]

\* variant: the threshold is applied before the negative check
EffectBodyRaiseFirst(interval, threshold) ==
    IF interval.isArray /\ Len(interval.arr) = 0 THEN NoTimer
    ELSE LET iv == IF interval.isArray
                   THEN ElementZero(Sort[Filter(interval.arr)])
                   ELSE Num(interval.num)
             raised == IF JSLess(iv, Num(threshold)) THEN Num(threshold) ELSE iv
         IN IF JSLess(raised, Num(0)) THEN NoTimer ELSE [armed |-> TRUE, delay |-> raised]

\* variant: the empty array is not returned early
EffectBodyNoEmptyCheck(interval, threshold) ==
    ArmWith[IF interval.isArray
            THEN ElementZero(Sort[Filter(interval.arr)])
            ELSE Num(interval.num),
            threshold]

\* The body of the effect function up to the setTimeout call.
EffectBody(interval, threshold) ==
    IF interval.isArray /\ Len(interval.arr) = 0 THEN NoTimer
    ELSE ArmWith[IF interval.isArray
                 THEN ElementZero(Sort[Filter(interval.arr)])
                 ELSE Num(interval.num),
                 threshold]

\* ------------------------------------------------------------------ state
VARIABLES
    status,        \* instance -> "new" | "mounted" | "unmounted"
    iterations,    \* instance -> value of the useState cell
    rendered,      \* instance -> closure of the last committed render
    effectPending, \* instance -> the last render's effect has not run yet
    cleanup,       \* instance -> cleanup returned by the last effect run
    timers,        \* pending timers of the host event loop
    lastEffect,    \* history: outcome of the last effect run (setTimeout call,
                   \* and whether its cleanup canceled a pending timer)
    everArmed,     \* history: some effect run of the instance armed a timer
    completions,   \* history: number of timer callbacks run per instance
    uncanceled,    \* history: timers armed minus timers canceled while pending
    sinceEffect,   \* history: time passed since the last effect run
    lastActor      \* history: the instance that took the last step

timerVars == <<status, iterations, rendered, effectPending, cleanup, timers,
               lastEffect, everArmed, completions, uncanceled, sinceEffect,
               lastActor>>

\* state of the components that use a keyboard hook, and of the keyboard
VARIABLES
    keyStatus,     \* instance -> "new" | "mounted" | "unmounted"
    hook,          \* instance -> the keyboard hook the component calls
    callback,      \* instance -> the listener function of the last render
    keyPending,    \* instance -> the last render's effect has not run yet
    keyCleanup,    \* instance -> cleanup returned by the last effect run
    listeners,     \* listeners registered on document
    active,        \* instance -> useState cell of the state-returning useMetaKey
    held,          \* modifier keys currently held down
    calls,         \* history: invocations of the instance's callback
    reported,      \* history: last value passed to the useMetaKey callback
    lastEvent,     \* history: the last keyboard event dispatched
    eventCount     \* history: number of keyboard events dispatched

keyVars == <<keyStatus, hook, callback, keyPending, keyCleanup, listeners,
             active, held, calls, reported, lastEvent, eventCount>>

vars == <<timerVars, keyVars>>

NoCleanup == [has |-> FALSE, timer |-> 0]
NoEffect == [ran |-> FALSE, armed |-> FALSE, delay |-> Undefined, canceled |-> FALSE]

OwnTimers(i) == {t \in timers : t.owner = i}

\* handle returned by setTimeout to instance i: the host never returns a
\* handle twice, so it is distinct from the handle of every pending timer
\* and from every handle another instance still holds in its cleanup
FreshId(ts, i) ==
    LET used(m) == \/ \E t \in ts : t.id = m
                   \/ \E j \in Instances \ {i} : cleanup[j].has /\ cleanup[j].timer = m
    IN CHOOSE n \in 1..(Cardinality(ts) + Cardinality(Instances) + 1) :
           ~used(n) /\ \A m \in 1..(n - 1) : used(m)

\* variant: the new timer continues the time elapsed since the last effect run
SetTimeoutCarryOver(ts, i, captured, delay) ==
    ts \cup {[id |-> FreshId(ts, i), owner |-> i, delay |-> delay, captured |-> captured,
              elapsed |-> sinceEffect[i]]}

\* setTimeout(() => setIterations(iterations + 1), delay)
SetTimeout(ts, i, captured, delay) ==
    ts \cup {[id |-> FreshId(ts, i), owner |-> i, delay |-> delay, captured |-> captured,
              elapsed |-> 0]}

\* variant: the handle passed on is not the armed timer's
ClearTimeoutOtherHandle(ts, id) == {t \in ts : t.id # id + 1}

\* variant: the timer stays pending
ClearTimeoutNoop(ts, id) == ts

\* clearTimeout(timer)
ClearTimeout(ts, id) == {t \in ts : t.id # id}

\* 1 if the cleanup calls clearTimeout on a timer that is still pending
Canceled(c, ts) == IF c.has /\ \E t \in ts : t.id = c.timer THEN 1 ELSE 0

\* variant: the effect returns no cleanup
RunCleanupMissing(c, ts) == ts

\* the cleanup function returned by an effect run, if it returned one:
\* () => clearTimeout(timer)
RunCleanup(c, ts) == IF c.has THEN ClearTimeout(ts, c.timer) ELSE ts

\* variant: the effect runs after the first render only (useEffect(fn, []))
RunEffectOnce(i, ts) ==
    IF lastEffect[i].ran
    THEN [timers |-> ts, cleanup |-> cleanup[i], lastEffect |-> lastEffect[i],
          everArmed |-> everArmed[i], uncanceled |-> uncanceled[i],
          sinceEffect |-> sinceEffect[i]]
    ELSE CHOOSE out \in
        {[timers |-> IF res.armed
                     THEN SetTimeout(ts, i, rendered[i].iterations, res.delay)
                     ELSE ts,
          cleanup |-> IF res.armed THEN [has |-> TRUE, timer |-> FreshId(ts, i)]
                      ELSE NoCleanup,
          lastEffect |-> [ran |-> TRUE, armed |-> res.armed, delay |-> res.delay,
                          canceled |-> FALSE],
          everArmed |-> everArmed[i] \/ res.armed,
          uncanceled |-> uncanceled[i] + (IF res.armed THEN 1 ELSE 0),
          sinceEffect |-> 0] :
            res \in {EffectBody(rendered[i].interval, rendered[i].threshold)}} : TRUE

\* One run of the effect of instance i's last render, on the timer set ts:
\* the previous cleanup, then the effect function. (The set construction
\* binds the outcome of the effect body and the cleared timer set once.)
RunEffect(i, ts) ==
    CHOOSE out \in
        {[timers |-> IF res.armed
                     THEN SetTimeout(cleared, i, rendered[i].iterations, res.delay)
                     ELSE cleared,
          cleanup |-> IF res.armed THEN [has |-> TRUE, timer |-> FreshId(cleared, i)]
                      ELSE NoCleanup,
          lastEffect |-> [ran |-> TRUE, armed |-> res.armed, delay |-> res.delay,
                          canceled |-> Canceled(cleanup[i], ts) = 1],
          everArmed |-> everArmed[i] \/ res.armed,
          uncanceled |-> uncanceled[i] - Canceled(cleanup[i], ts)
                            + (IF res.armed THEN 1 ELSE 0),
          sinceEffect |-> 0] :
            res \in {EffectBody(rendered[i].interval, rendered[i].threshold)},
            cleared \in {RunCleanup(cleanup[i], ts)}} : TRUE

\* React runs the pending effect of the previous render, if any
FlushPassiveEffects(i, ts) ==
    IF effectPending[i] THEN RunEffect(i, ts)
    ELSE [timers |-> ts, cleanup |-> cleanup[i], lastEffect |-> lastEffect[i],
          everArmed |-> everArmed[i], uncanceled |-> uncanceled[i],
          sinceEffect |-> sinceEffect[i]]

\* ------------------------------------------------------- keyboard hooks
\* "useMetaKey" is the variant that takes a callback, "useMetaKeyState" the
\* variant that returns a boolean state
Hooks == {"useKey", "useMetaKey", "useKeyPress", "useEscapeKey", "useMetaKeyState"}
EventTypes == {"keydown", "keyup", "keypress"}

\* keys of the keyboard and their keyCode
ModifierKeys == {"shift", "meta", "alt", "ctrl"}
Keys == ModifierKeys \cup {"a", "escape"}
KeyCode(k) ==
    CASE k = "shift" -> 16 [] k = "ctrl" -> 17 [] k = "alt" -> 18
      [] k = "meta" -> 91 [] k = "escape" -> 27 [] k = "a" -> 65
PressCodes == {KeyCode("a"), KeyCode("escape")}

\* a KeyboardEvent: its type, keyCode and modifier flags
KeyboardEvent(type, code, down) ==
    [type |-> type, keyCode |-> code,
     shiftKey |-> "shift" \in down, metaKey |-> "meta" \in down,
     altKey |-> "alt" \in down, ctrlKey |-> "ctrl" \in down]

NoKeyCleanup == [has |-> FALSE, callback |-> 0]
NoReport == [has |-> FALSE, value |-> FALSE]
NoEvent == KeyboardEvent("none", 0, {})

KeyInit ==
    /\ keyStatus = [i \in Instances |-> "new"]
    /\ hook = [i \in Instances |-> "useKey"]
    /\ callback = [i \in Instances |-> 0]
    /\ keyPending = [i \in Instances |-> FALSE]
    /\ keyCleanup = [i \in Instances |-> NoKeyCleanup]
    /\ listeners = {}
    /\ active = [i \in Instances |-> FALSE]
    /\ held = {}
    /\ calls = [i \in Instances |-> 0]
    /\ reported = [i \in Instances |-> NoReport]
    /\ lastEvent = NoEvent
    /\ eventCount = 0

Init ==
    /\ KeyInit
    /\ status = [i \in Instances |-> "new"]
    /\ iterations = [i \in Instances |-> 0]
    /\ rendered = [i \in Instances |-> [interval |-> Array(<<>>), threshold |-> 0, iterations |-> 0]]
    /\ effectPending = [i \in Instances |-> FALSE]
    /\ cleanup = [i \in Instances |-> NoCleanup]
    /\ timers = {}
    /\ lastEffect = [i \in Instances |-> NoEffect]
    /\ everArmed = [i \in Instances |-> FALSE]
    /\ completions = [i \in Instances |-> 0]
    /\ uncanceled = [i \in Instances |-> 0]
    /\ sinceEffect = [i \in Instances |-> 0]
    /\ lastActor = 1

\* first render of a new component instance: useState(0), effect scheduled
Mount(i, interval, threshold) ==
    /\ status[i] = "new"
    /\ status' = [status EXCEPT ![i] = "mounted"]
    /\ iterations' = [iterations EXCEPT ![i] = 0]
    /\ rendered' = [rendered EXCEPT ![i] =
                      [interval |-> interval, threshold |-> threshold, iterations |-> 0]]
    /\ effectPending' = [effectPending EXCEPT ![i] = TRUE]
    /\ lastActor' = i
    /\ UNCHANGED <<cleanup, timers, lastEffect, everArmed, completions, uncanceled,
                   sinceEffect, keyVars>>

\* re-render requested by the host (new arguments); the pending effect of
\* the previous render is flushed first
Render(i, interval, threshold) ==
    /\ status[i] = "mounted"
    /\ \E f \in {FlushPassiveEffects(i, timers)} :
          /\ timers' = f.timers
          /\ cleanup' = [cleanup EXCEPT ![i] = f.cleanup]
          /\ lastEffect' = [lastEffect EXCEPT ![i] = f.lastEffect]
          /\ everArmed' = [everArmed EXCEPT ![i] = f.everArmed]
          /\ uncanceled' = [uncanceled EXCEPT ![i] = f.uncanceled]
          /\ sinceEffect' = [sinceEffect EXCEPT ![i] = f.sinceEffect]
    /\ rendered' = [rendered EXCEPT ![i] =
                      [interval |-> interval, threshold |-> threshold,
                       iterations |-> iterations[i]]]
    /\ effectPending' = [effectPending EXCEPT ![i] = TRUE]
    /\ lastActor' = i
    /\ UNCHANGED <<status, iterations, completions, keyVars>>

\* the deferred effect of the last render runs
FlushEffects(i) ==
    /\ status[i] = "mounted"
    /\ effectPending[i]
    /\ \E f \in {RunEffect(i, timers)} :
          /\ timers' = f.timers
          /\ cleanup' = [cleanup EXCEPT ![i] = f.cleanup]
          /\ lastEffect' = [lastEffect EXCEPT ![i] = f.lastEffect]
          /\ everArmed' = [everArmed EXCEPT ![i] = f.everArmed]
          /\ uncanceled' = [uncanceled EXCEPT ![i] = f.uncanceled]
          /\ sinceEffect' = [sinceEffect EXCEPT ![i] = f.sinceEffect]
    /\ effectPending' = [effectPending EXCEPT ![i] = FALSE]
    /\ lastActor' = i
    /\ UNCHANGED <<status, iterations, rendered, completions, keyVars>>

\* a pending timer fires: its callback calls setIterations(iterations + 1)
\* with the iterations of the render that armed it. The state update flushes
\* the pending effect, then re-renders if the value changed.
TimerFire(t) ==
    /\ t \in timers
    /\ completions[t.owner] < MaxTicks
    /\ \E i \in {t.owner}, value \in {t.captured + 1} :
       \E live \in {status[i] = "mounted"} :
       \E changed \in {live /\ value # iterations[i]} :
       \E f \in {IF live THEN FlushPassiveEffects(i, timers \ {t})
                  ELSE [timers |-> timers \ {t}, cleanup |-> cleanup[i],
                        lastEffect |-> lastEffect[i], everArmed |-> everArmed[i],
                        uncanceled |-> uncanceled[i],
                        sinceEffect |-> sinceEffect[i]]} :
          /\ completions' = [completions EXCEPT ![i] = @ + 1]
          /\ timers' = f.timers
          /\ cleanup' = [cleanup EXCEPT ![i] = f.cleanup]
          /\ lastEffect' = [lastEffect EXCEPT ![i] = f.lastEffect]
          /\ everArmed' = [everArmed EXCEPT ![i] = f.everArmed]
          /\ uncanceled' = [uncanceled EXCEPT ![i] = f.uncanceled]
          /\ sinceEffect' = [sinceEffect EXCEPT ![i] = f.sinceEffect]
          /\ iterations' = [iterations EXCEPT ![i] = IF changed THEN value ELSE @]
          /\ rendered' = [rendered EXCEPT ![i].iterations = IF changed THEN value ELSE @]
          /\ effectPending' = [effectPending EXCEPT ![i] = IF live THEN changed ELSE @]
    /\ lastActor' = t.owner
    /\ UNCHANGED <<status, keyVars>>

\* some pending timer fires
Tick == \E t \in timers : TimerFire(t)

\* the component is torn down: a pending effect is flushed, then the last
\* cleanup runs
Unmount(i) ==
    /\ status[i] = "mounted"
    /\ status' = [status EXCEPT ![i] = "unmounted"]
    /\ \E f \in {FlushPassiveEffects(i, timers)} :
          /\ timers' = RunCleanup(f.cleanup, f.timers)
          /\ lastEffect' = [lastEffect EXCEPT ![i] = f.lastEffect]
          /\ everArmed' = [everArmed EXCEPT ![i] = f.everArmed]
          /\ uncanceled' = [uncanceled EXCEPT ![i] =
                              f.uncanceled - Canceled(f.cleanup, f.timers)]
          /\ sinceEffect' = [sinceEffect EXCEPT ![i] = f.sinceEffect]
    /\ cleanup' = [cleanup EXCEPT ![i] = NoCleanup]
    /\ effectPending' = [effectPending EXCEPT ![i] = FALSE]
    /\ lastActor' = i
    /\ UNCHANGED <<iterations, rendered, completions, keyVars>>

\* one component instance, every argument of the input sets
Next ==
    \/ \E interval \in Intervals, threshold \in Thresholds : Mount(1, interval, threshold)
    \/ \E interval \in Intervals, threshold \in Thresholds : Render(1, interval, threshold)
    \/ FlushEffects(1)
    \/ Tick
    \/ Unmount(1)

Spec == Init /\ [][Next]_vars

TypeOK ==
    /\ status \in [Instances -> {"new", "mounted", "unmounted"}]
    /\ iterations \in [Instances -> 0..MaxTicks]
    /\ completions \in [Instances -> 0..MaxTicks]
    /\ effectPending \in [Instances -> BOOLEAN]
    /\ everArmed \in [Instances -> BOOLEAN]
    /\ \A t \in timers : t.owner \in Instances /\ t.captured \in 0..MaxTicks

\* The arguments of the component that stays mounted: every render passes
\* arguments with a non-negative effective Duration. Whether the component
\* keeps ticking does not depend on which element of a Duration Set the
\* effect selects, so the sets here are the one-element sets and one
\* two-element set.
LiveIntervals ==
    {Single(n) : n \in Durations}
        \cup {Array(s) : s \in SeqsUpTo(Durations, 1)}
        \cup {Array(<<300, 1500>>)}

ValidArgs ==
    {a \in LiveIntervals \X Thresholds :
        LET res == EffectBody(a[1], a[2])
        IN res.armed /\ res.delay.defined /\ res.delay.val >= 0}

LiveNext ==
    \/ \E a \in ValidArgs : Mount(1, a[1], a[2])
    \/ \E a \in ValidArgs : Render(1, a[1], a[2])
    \/ FlushEffects(1)
    \/ Tick

\* the host event loop eventually runs a due timer and a deferred effect
LiveSpec ==
    /\ Init
    /\ [][LiveNext]_vars
    /\ WF_vars(Tick)
    /\ WF_vars(FlushEffects(1))

\* ---------------------------------------------------------- timed model
\* The host clock. A pending timer records the time elapsed since
\* setTimeout armed it; the host runs its callback once the delay has
\* elapsed (an undefined delay counts as 0).
TimedIntervals == {Single(300), Single(1500)}
TimedThresholds == {0, 1000}
WaitSteps == {300, 700}

\* the longest delay of the model; elapsed times are not counted beyond it
MaxDelay == CHOOSE d \in Durations \cup Thresholds :
                \A e \in Durations \cup Thresholds : e <= d
Saturate(n) == IF n > MaxDelay THEN MaxDelay ELSE n

DelayMs(delay) == IF delay.defined /\ delay.val > 0 THEN delay.val ELSE 0
Due(t) == t.elapsed >= DelayMs(t.delay)

\* dt milliseconds pass
Wait(dt) ==
    /\ timers' = {[t EXCEPT !.elapsed = Saturate(@ + dt)] : t \in timers}
    /\ sinceEffect' = [i \in Instances |-> Saturate(sinceEffect[i] + dt)]
    /\ UNCHANGED <<status, iterations, rendered, effectPending, cleanup, lastEffect,
                   everArmed, completions, uncanceled, lastActor, keyVars>>

\* the host runs the callback of a timer whose delay has elapsed
TimedTick == \E t \in timers : Due(t) /\ TimerFire(t)

TimedNext ==
    \/ \E interval \in TimedIntervals, threshold \in TimedThresholds :
          Mount(1, interval, threshold)
    \/ \E interval \in TimedIntervals, threshold \in TimedThresholds :
          Render(1, interval, threshold)
    \/ FlushEffects(1)
    \/ TimedTick
    \/ Unmount(1)
    \/ \E dt \in WaitSteps : Wait(dt)

TimedSpec == Init /\ [][TimedNext]_vars

\* several component instances that call useInterval, each with a Duration
\* that arms a timer or with one that arms none
MultiIntervals == {Single(300), Single(-300)}

MultiNext ==
    \/ \E i \in Instances, interval \in MultiIntervals : Mount(i, interval, 0)
    \/ \E i \in Instances, interval \in MultiIntervals : Render(i, interval, 0)
    \/ \E i \in Instances : FlushEffects(i)
    \/ Tick
    \/ \E i \in Instances : Unmount(i)

MultiSpec == Init /\ [][MultiNext]_vars

\* ------------------------------------------- keyboard hooks: operations
OwnListeners(ls, i) == {l \in ls : l.owner = i}

\* document.addEventListener(type, fn) for a function of instance i
AddEventListener(ls, type, i, fn) == ls \cup {[type |-> type, owner |-> i, fn |-> fn]}

\* a removal that matches the type and the function name only
RemoveEventListenerAnyOwner(ls, type, i, fn) ==
    {l \in ls : ~(l.type = type /\ l.fn = fn)}

\* document.removeEventListener(type, fn)
RemoveEventListener(ls, type, i, fn) == ls \ {[type |-> type, owner |-> i, fn |-> fn]}

\* a function created by a render: distinct from the function of the
\* previous render and from every function still registered or still
\* referenced by a cleanup
FreshCallback(ls, i) ==
    CHOOSE n \in 1..(Cardinality(OwnListeners(ls, i)) + 3) :
        LET used(m) == \/ m = callback[i]
                       \/ m = keyCleanup[i].callback
                       \/ \E l \in OwnListeners(ls, i) : l.fn = m
        IN ~used(n) /\ \A m \in 1..(n - 1) : used(m)

\* an effect that listens to key-down only
UseKeyEffectDownOnly(ls, i, fn) == AddEventListener(ls, "keydown", i, fn)

\* useKey: the effect and the cleanup it returns
UseKeyEffect(ls, i, fn) ==
    AddEventListener(AddEventListener(ls, "keydown", i, fn), "keyup", i, fn)
UseKeyCleanup(ls, i, fn) ==
    RemoveEventListener(RemoveEventListener(ls, "keydown", i, fn), "keyup", i, fn)

\* useKeyPress: the effect and the cleanup it returns
UseKeyPressEffect(ls, i, fn) == AddEventListener(ls, "keypress", i, fn)
UseKeyPressCleanup(ls, i, fn) == RemoveEventListener(ls, "keypress", i, fn)

\* the state-returning useMetaKey: the effect and the cleanup it returns
UseMetaKeyStateEffect(ls, i, fn) ==
    AddEventListener(AddEventListener(ls, "keydown", i, fn), "keyup", i, fn)
UseMetaKeyStateCleanup(ls, i, fn) ==
    RemoveEventListener(RemoveEventListener(ls, "keydown", i, fn), "keyup", i, fn)

\* useMetaKey(callback) calls useKey and useEscapeKey calls useKeyPress
HookEffect(h, ls, i, fn) ==
    CASE h \in {"useKey", "useMetaKey"} -> UseKeyEffect(ls, i, fn)
      [] h \in {"useKeyPress", "useEscapeKey"} -> UseKeyPressEffect(ls, i, fn)
      [] h = "useMetaKeyState" -> UseMetaKeyStateEffect(ls, i, fn)
HookCleanup(h, ls, i, fn) ==
    CASE h \in {"useKey", "useMetaKey"} -> UseKeyCleanup(ls, i, fn)
      [] h \in {"useKeyPress", "useEscapeKey"} -> UseKeyPressCleanup(ls, i, fn)
      [] h = "useMetaKeyState" -> UseMetaKeyStateCleanup(ls, i, fn)

\* a cleanup that leaves the listeners registered
KeyRunCleanupMissing(i, c, ls) == ls

\* the cleanup returned by the previous effect run, if there was one
KeyRunCleanup(i, c, ls) == IF c.has THEN HookCleanup(hook[i], ls, i, c.callback) ELSE ls

\* one run of the effect of instance i's last render on the listener set
\* ls: the previous cleanup, then the effect function
KeyRunEffect(i, ls) ==
    [listeners |-> HookEffect(hook[i], KeyRunCleanup(i, keyCleanup[i], ls), i, callback[i]),
     cleanup |-> [has |-> TRUE, callback |-> callback[i]]]

\* React runs the pending effect of the previous render, if any
KeyFlushPassiveEffects(i, ls) ==
    IF keyPending[i] THEN KeyRunEffect(i, ls)
    ELSE [listeners |-> ls, cleanup |-> keyCleanup[i]]

\* first render of a component that calls hook h
KeyMount(i, h) ==
    /\ keyStatus[i] = "new"
    /\ keyStatus' = [keyStatus EXCEPT ![i] = "mounted"]
    /\ hook' = [hook EXCEPT ![i] = h]
    /\ callback' = [callback EXCEPT ![i] = FreshCallback(listeners, i)]
    /\ keyPending' = [keyPending EXCEPT ![i] = TRUE]
    /\ active' = [active EXCEPT ![i] = FALSE]
    /\ UNCHANGED <<keyCleanup, listeners, held, calls, reported, lastEvent, eventCount>>
    /\ UNCHANGED timerVars

\* re-render requested by the host. The hooks that wrap the callback create
\* a new listener function on every render; the caller of useKey and
\* useKeyPress passes a new function or the same one again.
KeyRender(i, sameFunction) ==
    /\ keyStatus[i] = "mounted"
    /\ sameFunction => hook[i] \in {"useKey", "useKeyPress"}
    /\ \E f \in {KeyFlushPassiveEffects(i, listeners)} :
          /\ listeners' = f.listeners
          /\ keyCleanup' = [keyCleanup EXCEPT ![i] = f.cleanup]
          /\ callback' = [callback EXCEPT ![i] =
                            IF sameFunction THEN @ ELSE FreshCallback(f.listeners, i)]
    /\ keyPending' = [keyPending EXCEPT ![i] = TRUE]
    /\ UNCHANGED <<keyStatus, hook, active, held, calls, reported, lastEvent, eventCount>>
    /\ UNCHANGED timerVars

\* the deferred effect of the last render runs
KeyFlushEffects(i) ==
    /\ keyStatus[i] = "mounted"
    /\ keyPending[i]
    /\ \E f \in {KeyRunEffect(i, listeners)} :
          /\ listeners' = f.listeners
          /\ keyCleanup' = [keyCleanup EXCEPT ![i] = f.cleanup]
    /\ keyPending' = [keyPending EXCEPT ![i] = FALSE]
    /\ UNCHANGED <<keyStatus, hook, callback, active, held, calls, reported,
                   lastEvent, eventCount>>
    /\ UNCHANGED timerVars

\* the component is torn down: a pending effect is flushed, then the last
\* cleanup runs
KeyUnmount(i) ==
    /\ keyStatus[i] = "mounted"
    /\ keyStatus' = [keyStatus EXCEPT ![i] = "unmounted"]
    /\ \E f \in {KeyFlushPassiveEffects(i, listeners)} :
          listeners' = KeyRunCleanup(i, f.cleanup, f.listeners)
    /\ keyCleanup' = [keyCleanup EXCEPT ![i] = NoKeyCleanup]
    /\ keyPending' = [keyPending EXCEPT ![i] = FALSE]
    /\ UNCHANGED <<hook, callback, active, held, calls, reported, lastEvent, eventCount>>
    /\ UNCHANGED timerVars

\* a test of the shift key alone
MetaActiveShiftOnly(e) == e.shiftKey

\* e.shiftKey || e.metaKey || e.altKey || e.ctrlKey
MetaActive(e) == e.shiftKey \/ e.metaKey \/ e.altKey \/ e.ctrlKey

\* a listener that passes every event on
CallsBackAlways(h, e) == TRUE

\* whether the listener function of hook h passes event e on to the
\* callback of its caller (useEscapeKey: if (e.keyCode === 27) callback(e))
CallsBack(h, e) ==
    CASE h = "useEscapeKey" -> e.keyCode = 27
      [] OTHER -> TRUE

\* The listeners of instance i registered for the type of event e run.
\* The listener of the state-returning useMetaKey calls setActive, which
\* flushes the pending effect and re-renders if the value changed.
Deliver(i, e) ==
    LET n == Cardinality({l \in OwnListeners(listeners, i) : l.type = e.type})
        setsState == n > 0 /\ hook[i] = "useMetaKeyState" /\ keyStatus[i] = "mounted"
        f == IF setsState THEN KeyFlushPassiveEffects(i, listeners)
             ELSE [listeners |-> listeners, cleanup |-> keyCleanup[i]]
        changed == setsState /\ MetaActive(e) # active[i]
    IN [own |-> OwnListeners(f.listeners, i),
        cleanup |-> f.cleanup,
        pending |-> IF setsState THEN changed ELSE keyPending[i],
        callback |-> IF changed THEN FreshCallback(f.listeners, i) ELSE callback[i],
        active |-> IF changed THEN MetaActive(e) ELSE active[i],
        calls |-> IF CallsBack(hook[i], e) THEN calls[i] + n ELSE calls[i],
        reported |-> IF n > 0 /\ hook[i] = "useMetaKey"
                     THEN [has |-> TRUE, value |-> MetaActive(e)]
                     ELSE reported[i]]

\* document dispatches event e; down are the modifier keys held after it
Dispatch(e, down) ==
    /\ eventCount < MaxEvents
    /\ eventCount' = eventCount + 1
    /\ lastEvent' = e
    /\ held' = down
    /\ \E d \in {[i \in Instances |-> Deliver(i, e)]} :
          /\ listeners' = UNION {d[i].own : i \in Instances}
          /\ keyCleanup' = [i \in Instances |-> d[i].cleanup]
          /\ keyPending' = [i \in Instances |-> d[i].pending]
          /\ callback' = [i \in Instances |-> d[i].callback]
          /\ active' = [i \in Instances |-> d[i].active]
          /\ calls' = [i \in Instances |-> d[i].calls]
          /\ reported' = [i \in Instances |-> d[i].reported]
    /\ UNCHANGED <<keyStatus, hook>>
    /\ UNCHANGED timerVars

\* a key goes down (a held key repeats)
KeyDown(k) ==
    \E down \in {IF k \in ModifierKeys THEN held \cup {k} ELSE held} :
        Dispatch(KeyboardEvent("keydown", KeyCode(k), down), down)

\* a key goes up
KeyUp(k) ==
    /\ k \in ModifierKeys => k \in held
    /\ \E down \in {held \ {k}} :
          Dispatch(KeyboardEvent("keyup", KeyCode(k), down), down)

\* a key press is reported
KeyPress(code) ==
    /\ code \in PressCodes
    /\ Dispatch(KeyboardEvent("keypress", code, held), held)

\* the event types hook h registers a listener for
HookTypes(h) ==
    IF h \in {"useKeyPress", "useEscapeKey"} THEN {"keypress"} ELSE {"keydown", "keyup"}

\* the effect of instance i has run since its mount: its listeners are attached
Subscribed(i) == keyStatus[i] = "mounted" /\ keyCleanup[i].has

\* this step is the dispatch of one keyboard event (lastEvent' is the event)
IsDispatch == eventCount' = eventCount + 1

\* one component instance that calls any of the keyboard hooks
KeyNext ==
    \/ \E h \in Hooks : KeyMount(1, h)
    \/ \E sameFunction \in BOOLEAN : KeyRender(1, sameFunction)
    \/ KeyFlushEffects(1)
    \/ KeyUnmount(1)
    \/ \E k \in Keys : KeyDown(k)
    \/ \E k \in Keys : KeyUp(k)
    \/ \E code \in PressCodes : KeyPress(code)

KeySpec == Init /\ [][KeyNext]_vars

\* the hooks and keys of the components that share the document
SharedHooks == {"useKey", "useKeyPress"}
SharedKeys == {"a", "shift"}

\* several component instances, each calling useKey or useKeyPress
KeyMultiNext ==
    \/ \E i \in Instances, h \in SharedHooks : KeyMount(i, h)
    \/ \E i \in Instances : KeyRender(i, FALSE)
    \/ \E i \in Instances : KeyFlushEffects(i)
    \/ \E i \in Instances : KeyUnmount(i)
    \/ \E k \in SharedKeys : KeyDown(k)
    \/ \E k \in SharedKeys : KeyUp(k)
    \/ KeyPress(KeyCode("a"))

KeyMultiSpec == Init /\ [][KeyMultiNext]_vars

\* ------------------------------------------------------------ properties
\* the last effect run of instance i was the effect of its last render, so
\* lastEffect[i] is the outcome for the arguments in rendered[i]
Settled(i) == status[i] # "new" /\ ~effectPending[i] /\ lastEffect[i].ran

Elements(s) == {s[k] : k \in 1..Len(s)}
NonNegative(s) == {x \in Elements(s) : x >= 0}
Smallest(S) == CHOOSE x \in S : \A y \in S : x <= y
Raised(d, threshold) == IF d < threshold THEN threshold ELSE d

\* C1: for a Duration Set with at least one non-negative element the timer
\* is armed with the numerically smallest non-negative element (raised to
\* the threshold where it is below it), whatever the order and the
\* digit-lengths of the elements.
C1_SmallestNonNegative ==
    \A i \in Instances :
        (Settled(i) /\ rendered[i].interval.isArray
                    /\ NonNegative(rendered[i].interval.arr) # {})
        => /\ lastEffect[i].armed
           /\ lastEffect[i].delay =
                Num(Raised(Smallest(NonNegative(rendered[i].interval.arr)),
                           rendered[i].threshold))

\* C2: for a non-empty Duration Set whose elements are all negative and a
\* threshold >= 0 the effect arms no timer.
C2_AllNegativeNoTimer ==
    \A i \in Instances :
        (Settled(i) /\ rendered[i].interval.isArray
                    /\ Len(rendered[i].interval.arr) > 0
                    /\ NonNegative(rendered[i].interval.arr) = {}
                    /\ rendered[i].threshold >= 0)
        => ~lastEffect[i].armed

\* C3: every timer the effect arms has a defined delay d with
\* d >= threshold and d >= 0.
C3_DelayAtLeastThreshold ==
    \A i \in Instances :
        (Settled(i) /\ lastEffect[i].armed)
        => /\ lastEffect[i].delay.defined
           /\ lastEffect[i].delay.val >= rendered[i].threshold
           /\ lastEffect[i].delay.val >= 0

\* C4: every component instance has at most one pending timer in every
\* reachable state.
C4_AtMostOnePendingTimer ==
    \A i \in Instances : Cardinality(OwnTimers(i)) <= 1

\* a timer is pending after the effect has run again (at least one earlier
\* timer was armed, fired and replaced)
C4_Witness ==
    /\ status[1] = "mounted"
    /\ iterations[1] >= 1
    /\ ~effectPending[1]
    /\ Cardinality(OwnTimers(1)) = 1

\* C5: a torn down component has no pending timer, and from then on none of
\* its timer callbacks runs and its Tick Counter does not change.
C5_NothingAfterTeardown ==
    [][\A i \in Instances :
          /\ status'[i] = "unmounted" => {t \in timers' : t.owner = i} = {}
          /\ status[i] = "unmounted" =>
                /\ completions'[i] = completions[i]
                /\ iterations'[i] = iterations[i]]_vars

\* torn down after an effect run that armed a timer, and after a tick
C5_Witness ==
    /\ status[1] = "unmounted"
    /\ lastEffect[1].armed
    /\ iterations[1] >= 1
    /\ OwnTimers(1) = {}

\* C6: the Tick Counter equals the number of fulfilled timer completions of
\* the instance (it is 0 at first and every timer callback adds exactly 1).
C6_CounterIsCompletions ==
    \A i \in Instances : iterations[i] = completions[i]

\* C7: a single Duration d >= 0 is armed with the threshold when d is below
\* it and with d otherwise, for every threshold (a negative one included).
C7_SingleRaisedToThreshold ==
    \A i \in Instances :
        (Settled(i) /\ ~rendered[i].interval.isArray /\ rendered[i].interval.num >= 0)
        => /\ lastEffect[i].armed
           /\ lastEffect[i].delay =
                Num(Raised(rendered[i].interval.num, rendered[i].threshold))

\* useInterval(300, 1000) armed its timer with 1000
C7_Witness ==
    /\ Settled(1)
    /\ rendered[1].interval = Single(300)
    /\ rendered[1].threshold = 1000
    /\ lastEffect[1].delay = Num(1000)

\* C8: a single negative Duration arms no timer whatever the threshold, and
\* an instance none of whose effect runs armed a timer never ticks.
C8_NegativeDiscarded ==
    \A i \in Instances :
        /\ (Settled(i) /\ ~rendered[i].interval.isArray /\ rendered[i].interval.num < 0)
           => (~lastEffect[i].armed /\ OwnTimers(i) = {})
        /\ ~everArmed[i] =>
              (iterations[i] = 0 /\ completions[i] = 0 /\ OwnTimers(i) = {})

\* useInterval(-300, 1000) ran its effect and armed nothing
C8_Witness ==
    /\ Settled(1)
    /\ status[1] = "mounted"
    /\ rendered[1].interval = Single(-300)
    /\ rendered[1].threshold = 1000
    /\ ~lastEffect[1].armed

\* C9: an empty Duration Set arms no timer for any threshold (positive,
\* zero or negative), so no timer of the instance is pending afterwards
\* unless an earlier render armed one that is then cleared.
C9_EmptySetNoTimer ==
    \A i \in Instances :
        (Settled(i) /\ rendered[i].interval.isArray /\ Len(rendered[i].interval.arr) = 0)
        => (~lastEffect[i].armed /\ ~cleanup[i].has /\ OwnTimers(i) = {})

\* useInterval([], 1000) ran its effect after an earlier render had ticked
C9_Witness ==
    /\ Settled(1)
    /\ status[1] = "mounted"
    /\ rendered[1].interval = Array(<<>>)
    /\ rendered[1].threshold = 1000
    /\ iterations[1] >= 1

C11_MetaKeyState ==
    \A i \in Instances :
        (hook[i] = "useMetaKeyState" /\ keyStatus[i] = "mounted") =>
            IF calls[i] = 0 THEN active[i] = FALSE
            ELSE active[i] = (held \cap ModifierKeys # {})

\* true after a key-down of a modifier, then false again after its key-up
C11_Witness ==
    /\ hook[1] = "useMetaKeyState" /\ keyStatus[1] = "mounted"
    /\ calls[1] >= 2 /\ lastEvent.type = "keyup" /\ lastEvent.keyCode = KeyCode("shift")
    /\ held = {} /\ active[1] = FALSE

\* ---------------------------------------------------------------- C12
\* C12: while a useEscapeKey component is subscribed, every key-press event
\* with keyCode 27 invokes its callback exactly once, and no other event
\* (another keyCode, a key-down, a key-up) and no other step invokes it.
C12_EscapeOnly ==
    [][\A i \in Instances :
         hook[i] = "useEscapeKey" =>
            /\ (Subscribed(i) /\ IsDispatch) =>
                  calls'[i] = calls[i] +
                      (IF lastEvent'.type = "keypress" /\ lastEvent'.keyCode = 27
                       THEN 1 ELSE 0)
            /\ ~IsDispatch => calls'[i] = calls[i]]_vars

\* one escape key-press counted, and events of other kinds not counted
C12_Witness ==
    /\ hook[1] = "useEscapeKey" /\ Subscribed(1)
    /\ calls[1] = 1 /\ eventCount = 3
    /\ lastEvent.type = "keydown" /\ lastEvent.keyCode = 27

\* ---------------------------------------------------------------- C13
\* the listeners of every instance are those of its last effect run:
\* at most one per event type, exactly one per event type of the hook once
\* the effect has run, none when the instance is not mounted
ListenersReplaced ==     \A i \in Instances :
        /\ \A l \in OwnListeners(listeners, i) :
              /\ l.type \in HookTypes(hook[i])
              /\ keyCleanup[i].has /\ l.fn = keyCleanup[i].callback
        /\ Subscribed(i) =>
              \A type \in HookTypes(hook[i]) :
                  \E l \in OwnListeners(listeners, i) : l.type = type
        /\ keyStatus[i] # "mounted" => OwnListeners(listeners, i) = {}

\* C13: an instance never has more than one listener per event type; once
\* its effect has run a mounted instance has exactly one listener for each
\* event type of its hook, namely the function of the render whose effect
\* ran last, and none for another type; an instance that is not mounted
\* has none, and its callback is not invoked after teardown.
C13_Listeners ==
    /\ []ListenersReplaced
    /\ [][\A i \in Instances : keyStatus[i] = "unmounted" => calls'[i] = calls[i]]_vars

\* a re-render with a new function has replaced the listener
C13_Witness ==
    /\ hook[1] = "useKey" /\ Subscribed(1) /\ ~keyPending[1]
    /\ keyCleanup[1].callback = 2
    /\ Cardinality(OwnListeners(listeners, 1)) = 2

\* ---------------------------------------------------------------- C14
\* C14: the callback of useMetaKey(callback) is invoked for a key-down or
\* key-up event only if the meta-active value of the event differs from
\* the value reported by the previous invocation.
C14_OnlyOnChange ==
    [][\A i \in Instances :
         (hook[i] = "useMetaKey" /\ calls'[i] > calls[i] /\ reported[i].has) =>
             MetaActive(lastEvent') # reported[i].value]_vars

C18_EventTypes ==
    [][\A i \in Instances :
         hook[i] \in {"useKey", "useKeyPress"} =>
            /\ (Subscribed(i) /\ IsDispatch) =>
                  calls'[i] = calls[i] +
                      (IF hook[i] = "useKey"
                       THEN (IF lastEvent'.type \in {"keydown", "keyup"} THEN 1 ELSE 0)
                       ELSE (IF lastEvent'.type = "keypress" THEN 1 ELSE 0))
            /\ ~IsDispatch => calls'[i] = calls[i]]_vars

\* a key-down and a key-up counted by useKey, a key-press not counted
C18_Witness ==
    /\ hook[1] = "useKey" /\ Subscribed(1)
    /\ calls[1] = 2 /\ eventCount = 3 /\ lastEvent.type = "keypress"

\* ---------------------------------------------------------------- C15
\* C15: a timer canceled while pending never runs its callback: the number
\* of callbacks run, and so the Tick Counter, never exceeds the number of
\* timers armed minus the number canceled, a tick adds at most one, and a
\* step that runs no timer callback (a re-render, an effect run, a
\* teardown) leaves the Tick Counter unchanged.
C15_CanceledNeverRuns ==
    /\ [](\A i \in Instances :
            /\ completions[i] <= uncanceled[i]
            /\ iterations[i] <= uncanceled[i])
    /\ [][\A i \in Instances :
            /\ completions'[i] = completions[i] => iterations'[i] = iterations[i]
            /\ iterations'[i] <= iterations[i] + 1]_vars

\* two timers were armed (one after the tick of the other), the second was
\* canceled by the effect of a re-render that arms none, and never ran
C15_Witness ==
    /\ status[1] = "mounted" /\ Settled(1)
    /\ lastEffect[1].canceled /\ ~lastEffect[1].armed
    /\ everArmed[1] /\ OwnTimers(1) = {}
    /\ completions[1] = 1 /\ iterations[1] = 1 /\ uncanceled[1] = 1

\* ---------------------------------------------------------------- C16
\* C16: a step of one instance (render, effect run that arms or cancels a
\* timer, timer callback, teardown) leaves the Tick Counter and the pending
\* timer of every other instance unchanged: an instance whose own render,
\* effect and timer did not take the step keeps both.
C16_InstancesIndependent ==
    [][\A j \in Instances \ {lastActor'} :
         /\ iterations'[j] = iterations[j]
         /\ OwnTimers(j)' = OwnTimers(j)]_vars

\* both instances have a pending timer of their own, and instance 2 has
\* ticked once while the counter of instance 1 is still 0
C16_Witness ==
    /\ status[1] = "mounted" /\ status[2] = "mounted"
    /\ Cardinality(OwnTimers(1)) = 1 /\ Cardinality(OwnTimers(2)) = 1
    /\ iterations[1] = 0 /\ iterations[2] = 1

====
